---- MODULE Spec2Model ----
(***************************************************************************)
(* Model of the odgi stats module of MultiQC                               *)
(* (src/multiqc/modules/odgi/stats.py).                                    *)
(*                                                                         *)
(* Python strings are modelled as sequences of one-character strings, so   *)
(* that splitting, substring search, comparison and numeric parsing are    *)
(* computed on the characters as the Python code computes them.            *)
(* A Python dict is modelled as a sequence of <<key, value>> pairs in      *)
(* insertion order (the iteration order of a dict).                        *)
(* A Python call that may raise is modelled by an operator returning       *)
(* [ok |-> TRUE, val |-> v] or [ok |-> FALSE, exc |-> "<exception name>"]. *)
(***************************************************************************)
EXTENDS Integers, Sequences, FiniteSets, TLC

(***************************************************************************)
(* Characters and string helpers                                           *)
(***************************************************************************)
TAB == "\t"
NL == "\n"
DOT == "."

Digits == <<"0", "1", "2", "3", "4", "5", "6", "7", "8", "9">>

\* The characters used by the modelled inputs, in increasing code point order
\* (Python compares strings code point by code point).
CodePointOrder ==
    <<"\t", "\n", "#", ".", "0", "1", "2", "3", "4", "5", "6", "7", "8", "9",
      "@", "_", "a", "b", "c", "d", "e", "f", "g", "h", "i", "l", "m", "n",
      "o", "p", "q", "r", "s", "t", "u", "w", "x">>

Ord(c) == CHOOSE k \in 1..Len(CodePointOrder) : CodePointOrder[k] = c

IsDigit(c) == \E k \in 1..Len(Digits) : Digits[k] = c

DigitValue(c) == (CHOOSE k \in 1..Len(Digits) : Digits[k] = c) - 1

\* Python: a < b on str
StrLess(a, b) ==
    \E k \in 1..(Len(a) + 1) :
        /\ \A j \in 1..(k - 1) : j <= Len(b) /\ a[j] = b[j]
        /\ \/ k = Len(a) + 1 /\ Len(b) >= k
           \/ k <= Len(a) /\ k <= Len(b) /\ Ord(a[k]) < Ord(b[k])

\* Python: sub in s
Contains(s, sub) ==
    \E i \in 1..(Len(s) - Len(sub) + 1) : SubSeq(s, i, i + Len(sub) - 1) = sub

\* Index of the first occurrence of character c in s, 0 when there is none
FirstIndex(s, c) ==
    IF \E i \in 1..Len(s) : s[i] = c
    THEN CHOOSE i \in 1..Len(s) : s[i] = c /\ \A j \in 1..(i - 1) : s[j] # c
    ELSE 0

\* Python: s.split(c) for a one-character separator
RECURSIVE Split(_, _)
Split(s, c) ==
    LET k == FirstIndex(s, c)
    IN  IF k = 0 THEN <<s>>
        ELSE <<SubSeq(s, 1, k - 1)>> \o Split(SubSeq(s, k + 1, Len(s)), c)

\* Python: s.splitlines(); "\n" is the only line boundary in the modelled
\* alphabet. A trailing newline does not open a last empty line.
RECURSIVE SplitLines(_)
SplitLines(s) ==
    IF s = <<>> THEN <<>>
    ELSE LET k == FirstIndex(s, NL)
         IN  IF k = 0 THEN <<s>>
             ELSE <<SubSeq(s, 1, k - 1)>> \o SplitLines(SubSeq(s, k + 1, Len(s)))

\* Python: sep.join(parts)
RECURSIVE Join(_, _)
Join(parts, sep) ==
    IF parts = <<>> THEN <<>>
    ELSE IF Len(parts) = 1 THEN parts[1]
    ELSE parts[1] \o <<sep>> \o Join(Tail(parts), sep)

(***************************************************************************)
(* float()                                                                 *)
(***************************************************************************)
\* The value of a string of decimal digits
RECURSIVE DigitsValue(_)
DigitsValue(s) ==
    IF s = <<>> THEN 0
    ELSE 10 * DigitsValue(SubSeq(s, 1, Len(s) - 1)) + DigitValue(s[Len(s)])

\* A float is the pair [m, e] standing for m * 10^(-e), in lowest form
RECURSIVE Normalise(_, _)
Normalise(m, e) ==
    IF m = 0 THEN [m |-> 0, e |-> 0]
    ELSE IF e > 0 /\ m % 10 = 0 THEN Normalise(m \div 10, e - 1)
    ELSE [m |-> m, e |-> e]

\* Python: float(tok), for tokens over digits, '.', '#' and the letters of
\* the modelled reports (none of which spells an exponent, "inf" or "nan"):
\* decimal digits with at most one '.', and at least one digit.
Float(tok) ==
    LET dots == {i \in 1..Len(tok) : tok[i] = DOT}
        wellFormed ==
            /\ \A i \in 1..Len(tok) : IsDigit(tok[i]) \/ tok[i] = DOT
            /\ Cardinality(dots) <= 1
            /\ \E i \in 1..Len(tok) : IsDigit(tok[i])
        p == FirstIndex(tok, DOT)
        intPart == IF p = 0 THEN tok ELSE SubSeq(tok, 1, p - 1)
        fracPart == IF p = 0 THEN <<>> ELSE SubSeq(tok, p + 1, Len(tok))
    IN  IF wellFormed
        THEN [ok |-> TRUE,
              val |-> Normalise(DigitsValue(intPart \o fracPart), Len(fracPart))]
        ELSE [ok |-> FALSE, exc |-> "ValueError"]

\* Index as a lookup with a default: an index out of range yields the empty
\* string instead of raising IndexError
IndexOrEmpty(seq, i) ==
    [ok |-> TRUE, val |-> IF i + 1 <= Len(seq) THEN seq[i + 1] ELSE <<>>]

\* Python: seq[i] with a 0-based non-negative index
Index(seq, i) ==
    IF i + 1 <= Len(seq) THEN [ok |-> TRUE, val |-> seq[i + 1]]
    ELSE [ok |-> FALSE, exc |-> "IndexError"]

(***************************************************************************)
(* dict                                                                    *)
(***************************************************************************)
DictKeys(d) == [i \in 1..Len(d) |-> d[i][1]]

DictKeySet(d) == {d[i][1] : i \in 1..Len(d)}

DictGet(d, k) == d[CHOOSE i \in 1..Len(d) : d[i][1] = k][2]

\* Python: d.update({k: v}); an existing key keeps its position
DictUpdate(d, k, v) ==
    IF k \in DictKeySet(d)
    THEN [i \in 1..Len(d) |-> IF d[i][1] = k THEN <<k, v>> ELSE d[i]]
    ELSE Append(d, <<k, v>>)

\* Python: d.update(other)
RECURSIVE DictUpdateAll(_, _)
DictUpdateAll(d, other) ==
    IF other = <<>> THEN d
    ELSE DictUpdateAll(DictUpdate(d, other[1][1], other[1][2]), Tail(other))

(***************************************************************************)
(* MultiqcModule.strip_file_name                                           *)
(***************************************************************************)
SEQWISH_OG == <<"s", "e", "q", "w", "i", "s", "h", ".", "o", "g">>
SEQWISH == <<"s", "e", "q", "w", "i", "s", "h">>
SMOOTH == <<"s", "m", "o", "o", "t", "h">>
CONSENSUS_AT == <<"c", "o", "n", "s", "e", "n", "s", "u", "s", "@">>

UNKNOWN_FILE_NAME ==
    "Unknown file name: File name must either contain seqwish, smooth or consensus@!"

\* strip_file_name with its first two tests in the other order
strip_file_name_smooth_first(fn) ==
    IF Contains(fn, SMOOTH) THEN [ok |-> TRUE, val |-> SMOOTH]
    ELSE IF Contains(fn, SEQWISH_OG) THEN [ok |-> TRUE, val |-> SEQWISH]
    ELSE LET segs == Split(fn, DOT)
             consensus_identifier ==
                 SelectSeq(segs, LAMBDA e : Contains(e, CONSENSUS_AT))
             first == Index(consensus_identifier, 0)
         IN  IF first.ok THEN [ok |-> TRUE, val |-> first.val]
             ELSE [ok |-> FALSE, exc |-> "SystemExit",
                   calls |-> <<[call |-> "log.error", arg |-> UNKNOWN_FILE_NAME],
                               [call |-> "sys.exit", arg |-> 1]>>]

\* strip_file_name falling back on the first segment of the file name when no
\* convention matches, instead of logging and exiting
strip_file_name_fallback(fn) ==
    IF Contains(fn, SEQWISH_OG) THEN [ok |-> TRUE, val |-> SEQWISH]
    ELSE IF Contains(fn, SMOOTH) THEN [ok |-> TRUE, val |-> SMOOTH]
    ELSE LET segs == Split(fn, DOT)
             consensus_identifier ==
                 SelectSeq(segs, LAMBDA e : Contains(e, CONSENSUS_AT))
             first == Index(consensus_identifier, 0)
         IN  IF first.ok THEN [ok |-> TRUE, val |-> first.val]
             ELSE [ok |-> TRUE, val |-> segs[1]]

\* The result is the identifier, or SystemExit with the calls made on the way
\* out (log.error, then sys.exit(1)).
strip_file_name(fn) ==
    IF Contains(fn, SEQWISH_OG) THEN [ok |-> TRUE, val |-> SEQWISH]
    ELSE IF Contains(fn, SMOOTH) THEN [ok |-> TRUE, val |-> SMOOTH]
    ELSE LET segs == Split(fn, DOT)
             consensus_identifier ==
                 SelectSeq(segs, LAMBDA e : Contains(e, CONSENSUS_AT))
             first == Index(consensus_identifier, 0)
         IN  IF first.ok THEN [ok |-> TRUE, val |-> first.val]
             ELSE [ok |-> FALSE, exc |-> "SystemExit",
                   calls |-> <<[call |-> "log.error", arg |-> UNKNOWN_FILE_NAME],
                               [call |-> "sys.exit", arg |-> 1]>>]

(***************************************************************************)
(* MultiqcModule.compress_stats_data                                       *)
(***************************************************************************)
\* 'General stats {}'.format(fn) and the two other section keys: the section
\* name followed by the file name, kept as a pair.
SectionKey(section, fn) == <<section, fn>>

SectionKeys(fn) ==
    {SectionKey("General stats", fn), SectionKey("Mean_links_length", fn),
     SectionKey("Sum_of_path_nodes_distances", fn)}

\* float(stats[i])
FloatAt(seq, i) ==
    LET x == Index(seq, i) IN IF x.ok THEN Float(x.val) ELSE x

\* The first exception raised by a sequence of evaluations, in order
FirstFailure(evals) ==
    LET bad == {i \in 1..Len(evals) : ~evals[i].ok}
    IN  IF bad = {} THEN [ok |-> TRUE]
        ELSE evals[CHOOSE i \in bad : \A j \in bad : i <= j]

\* compress_stats_data with the second and third general stats exchanged
compress_stats_data_swapped(fn, stats, mean_links_length, sum_of_path_nodes_distances) ==
    LET g == [i \in 1..4 |-> FloatAt(stats, i - 1)]
        m == [i \in 1..4 |-> Index(mean_links_length, i - 1)]
        s == [i \in 1..7 |-> Index(sum_of_path_nodes_distances, i - 1)]
        failure == FirstFailure(g \o m \o s)
        report ==
            [k \in SectionKeys(fn) |->
                IF k = SectionKey("General stats", fn)
                THEN [Length |-> g[1].val, Nodes |-> g[3].val,
                      Edges |-> g[2].val, Paths |-> g[4].val]
                ELSE IF k = SectionKey("Mean_links_length", fn)
                THEN [Path |-> m[1].val, In_node_space |-> m[2].val,
                      In_nucleotide_space |-> m[3].val,
                      Num_links_considered |-> m[4].val]
                ELSE [Path |-> s[1].val, In_node_space |-> s[2].val,
                      In_nucleotide_space |-> s[3].val, Nodes |-> s[4].val,
                      Nucleotides |-> s[5].val, Num_penalties |-> s[6].val,
                      Num_penalties_different_orientation |-> s[7].val]]
    IN  IF failure.ok THEN [ok |-> TRUE, val |-> <<<<fn, report>>>>]
        ELSE [ok |-> FALSE, exc |-> failure.exc]

compress_stats_data(fn, stats, mean_links_length, sum_of_path_nodes_distances) ==
    LET g == [i \in 1..4 |-> FloatAt(stats, i - 1)]
        m == [i \in 1..4 |-> Index(mean_links_length, i - 1)]
        s == [i \in 1..7 |-> Index(sum_of_path_nodes_distances, i - 1)]
        failure == FirstFailure(g \o m \o s)
        report ==
            [k \in SectionKeys(fn) |->
                IF k = SectionKey("General stats", fn)
                THEN [Length |-> g[1].val, Nodes |-> g[2].val,
                      Edges |-> g[3].val, Paths |-> g[4].val]
                ELSE IF k = SectionKey("Mean_links_length", fn)
                THEN [Path |-> m[1].val, In_node_space |-> m[2].val,
                      In_nucleotide_space |-> m[3].val,
                      Num_links_considered |-> m[4].val]
                ELSE [Path |-> s[1].val, In_node_space |-> s[2].val,
                      In_nucleotide_space |-> s[3].val, Nodes |-> s[4].val,
                      Nucleotides |-> s[5].val, Num_penalties |-> s[6].val,
                      Num_penalties_different_orientation |-> s[7].val]]
    IN  IF failure.ok THEN [ok |-> TRUE, val |-> <<<<fn, report>>>>]
        ELSE [ok |-> FALSE, exc |-> failure.exc]

(***************************************************************************)
(* MultiqcModule.parse_odgi_stats_report                                   *)
(***************************************************************************)
\* The result is the updated odgi_stats_map, or the exception raised before
\* the update.
parse_odgi_stats_report(map, f) ==
    LET lines == SplitLines(f.f)
        l1 == Index(lines, 1)
        l4 == Index(lines, 4)
        l7 == Index(lines, 7)
        failure == FirstFailure(<<l1, l4, l7>>)
        compressed ==
            compress_stats_data(f.fn, Split(l1.val, TAB), Split(l4.val, TAB),
                                Split(l7.val, TAB))
    IN  IF ~failure.ok THEN [ok |-> FALSE, exc |-> failure.exc]
        ELSE IF ~compressed.ok THEN [ok |-> FALSE, exc |-> compressed.exc]
        ELSE [ok |-> TRUE, val |-> DictUpdateAll(map, compressed.val)]

(***************************************************************************)
(* MultiqcModule.plot_general_odgi_stats                                   *)
(***************************************************************************)
GENERAL_HEADERS == <<"Length", "Nodes", "Edges", "Paths">>

\* The loop of lines 100-103 keeping the first row of an identifier
\* (setdefault instead of update)
RECURSIVE GeneralStatsLoopKeepsFirst(_, _, _)
GeneralStatsLoopKeepsFirst(map, fns, data) ==
    IF fns = <<>> THEN [ok |-> TRUE, val |-> data]
    ELSE LET fn == Head(fns)
             file_stats == DictGet(map, fn)
             unique_file_identifier == strip_file_name(fn)
         IN  IF ~unique_file_identifier.ok THEN unique_file_identifier
             ELSE GeneralStatsLoopKeepsFirst(map, Tail(fns),
                     IF unique_file_identifier.val \in DictKeySet(data) THEN data
                     ELSE DictUpdate(data, unique_file_identifier.val,
                                     file_stats[SectionKey("General stats", fn)]))

\* The loop of lines 100-103 over the file names not yet visited
RECURSIVE GeneralStatsLoop(_, _, _)
GeneralStatsLoop(map, fns, data) ==
    IF fns = <<>> THEN [ok |-> TRUE, val |-> data]
    ELSE LET fn == Head(fns)
             file_stats == DictGet(map, fn)
             unique_file_identifier == strip_file_name(fn)
         IN  IF ~unique_file_identifier.ok THEN unique_file_identifier
             ELSE GeneralStatsLoop(map, Tail(fns),
                     DictUpdate(data, unique_file_identifier.val,
                                file_stats[SectionKey("General stats", fn)]))

\* The data handed to general_stats_addcols, or SystemExit
plot_general_odgi_stats(map) == GeneralStatsLoop(map, DictKeys(map), <<>>)

(***************************************************************************)
(* MultiqcModule.plot_odgi_metrics                                         *)
(***************************************************************************)
\* Python: sorted(names) for distinct strings
RECURSIVE Insert(_, _)
Insert(x, s) ==
    IF s = <<>> THEN <<x>>
    ELSE IF StrLess(x, Head(s)) THEN <<x>> \o s
    ELSE <<Head(s)>> \o Insert(x, Tail(s))

RECURSIVE Sorted(_)
Sorted(s) == IF s = <<>> THEN <<>> ELSE Insert(Head(s), Sorted(Tail(s)))

\* Python: s[-2:] and s[:-2]
LastTwo(s) == SubSeq(s, IF Len(s) > 2 THEN Len(s) - 1 ELSE 1, Len(s))
\* Python: s[:-1]
AllButLast(s) == SubSeq(s, 1, Len(s) - 1)
AllButLastTwo(s) == SubSeq(s, 1, Len(s) - 2)

\* lines 114-116
SortedFilenames(map) ==
    LET odgi_stats_file_names == Sorted(DictKeys(map))
        seq_smooth == LastTwo(odgi_stats_file_names)
    IN  seq_smooth \o AllButLastTwo(odgi_stats_file_names)

EmptySeries ==
    [in_node_space_mean |-> <<>>, in_nucleotide_space_mean |-> <<>>,
     in_node_space_sum |-> <<>>, in_nucleotide_space_sum |-> <<>>]

\* The loop of lines 117-125 keeping the first value of an identifier
RECURSIVE MetricsLoopKeepsFirst(_, _, _)
MetricsLoopKeepsFirst(map, fns, series) ==
    IF fns = <<>> THEN [ok |-> TRUE, val |-> series]
    ELSE LET fn == Head(fns)
             file_stats == DictGet(map, fn)
             unique_file_identifier == strip_file_name(fn)
             links == file_stats[SectionKey("Mean_links_length", fn)]
             distances == file_stats[SectionKey("Sum_of_path_nodes_distances", fn)]
             values == <<Float(links.In_node_space), Float(links.In_nucleotide_space),
                         Float(distances.In_node_space),
                         Float(distances.In_nucleotide_space)>>
             failure == FirstFailure(values)
         IN  IF ~unique_file_identifier.ok THEN unique_file_identifier
             ELSE IF ~failure.ok THEN [ok |-> FALSE, exc |-> failure.exc]
             ELSE LET id == unique_file_identifier.val
                  IN  MetricsLoopKeepsFirst(map, Tail(fns),
                        IF id \in DictKeySet(series.in_node_space_mean) THEN series
                        ELSE [in_node_space_mean |->
                                DictUpdate(series.in_node_space_mean, id, values[1].val),
                              in_nucleotide_space_mean |->
                                DictUpdate(series.in_nucleotide_space_mean, id, values[2].val),
                              in_node_space_sum |->
                                DictUpdate(series.in_node_space_sum, id, values[3].val),
                              in_nucleotide_space_sum |->
                                DictUpdate(series.in_nucleotide_space_sum, id, values[4].val)])

\* The loop of lines 117-125 over the file names not yet visited
RECURSIVE MetricsLoop(_, _, _)
MetricsLoop(map, fns, series) ==
    IF fns = <<>> THEN [ok |-> TRUE, val |-> series]
    ELSE LET fn == Head(fns)
             file_stats == DictGet(map, fn)
             unique_file_identifier == strip_file_name(fn)
             links == file_stats[SectionKey("Mean_links_length", fn)]
             distances == file_stats[SectionKey("Sum_of_path_nodes_distances", fn)]
             values == <<Float(links.In_node_space), Float(links.In_nucleotide_space),
                         Float(distances.In_node_space),
                         Float(distances.In_nucleotide_space)>>
             failure == FirstFailure(values)
         IN  IF ~unique_file_identifier.ok THEN unique_file_identifier
             ELSE IF ~failure.ok THEN [ok |-> FALSE, exc |-> failure.exc]
             ELSE LET id == unique_file_identifier.val
                  IN  MetricsLoop(map, Tail(fns),
                        [in_node_space_mean |->
                            DictUpdate(series.in_node_space_mean, id, values[1].val),
                         in_nucleotide_space_mean |->
                            DictUpdate(series.in_nucleotide_space_mean, id, values[2].val),
                         in_node_space_sum |->
                            DictUpdate(series.in_node_space_sum, id, values[3].val),
                         in_nucleotide_space_sum |->
                            DictUpdate(series.in_nucleotide_space_sum, id, values[4].val)])

\* The series handed to linegraph.plot, or the exception raised
plot_odgi_metrics(map) == MetricsLoop(map, SortedFilenames(map), EmptySeries)

(***************************************************************************)
(* Inputs: what find_log_files('odgi/stats') may yield.  A log file is     *)
(* [fn |-> file name, f |-> file content].                                 *)
(***************************************************************************)
\* Python: str(n) for n >= 0
RECURSIVE Num(_)
Num(n) == IF n < 10 THEN <<Digits[n + 1]>> ELSE Num(n \div 10) \o <<Digits[(n % 10) + 1]>>

Row(tokens) == Join(tokens, TAB)

ALL == <<"a", "l", "l">>
HEADER == <<"p", "a", "t", "h">>
MARKER == <<"#", "m">>

\* A report in the layout of the docstring of parse_odgi_stats_report, given
\* its three data rows and the text of its other lines
ReportLines(general, links, distances, other) ==
    <<other, Row(general), MARKER, other, Row(links), MARKER, other, Row(distances)>>

Report(general, links, distances, other) ==
    Join(ReportLines(general, links, distances, other), NL)

GeneralA == <<Num(8778), Num(168), Num(243), Num(35)>>
LinksA == <<ALL, Num(9) \o <<DOT>> \o Num(75), Num(497) \o <<DOT>> \o Num(3), Num(942)>>
DistancesA ==
    <<ALL, Num(20) \o <<DOT>> \o Num(6), Num(19) \o <<DOT>> \o Num(5), Num(977),
      Num(51365), Num(90), Num(0)>>

\* Other spellings of numbers: "1.50", "007", ".5", "3."
GeneralB == <<<<"1", ".", "5", "0">>, <<"0", "0", "7">>, <<".", "5">>, <<"3", ".">>>>
LinksB == <<HEADER, <<"2", ".", "0">>, Num(40), Num(1)>>
DistancesB == <<HEADER, Num(7), <<"0", ".", "2", "5">>, Num(1), Num(2), Num(3), Num(4)>>

TextA == Report(GeneralA, LinksA, DistancesA, HEADER)
\* the data rows of TextA between other lines, with a ninth line
TextA2 == Report(GeneralA, LinksA, DistancesA, <<>>) \o <<NL>> \o Row(GeneralB) \o <<NL>>
TextB == Report(GeneralB, LinksB, DistancesB, HEADER) \o <<NL>>
\* the first seven lines of TextA
TextShort == Join(SubSeq(ReportLines(GeneralA, LinksA, DistancesA, HEADER), 1, 7), NL)
TextEmpty == <<>>
TextFewGeneral == Report(SubSeq(GeneralA, 1, 3), LinksA, DistancesA, HEADER)
TextFewLinks == Report(GeneralA, SubSeq(LinksA, 1, 3), DistancesA, HEADER)
TextFewDistances == Report(GeneralA, LinksA, SubSeq(DistancesA, 1, 6), HEADER)
TextManyGeneral == Report(GeneralA \o <<Num(1)>>, LinksA, DistancesA, HEADER)
TextManyLinks == Report(GeneralA, LinksA \o <<Num(1)>>, DistancesA, HEADER)
TextManyDistances == Report(GeneralA, LinksA, DistancesA \o <<Num(1)>>, HEADER)
TextBadGeneral == Report(<<Num(1), <<"x">>, Num(3), Num(4)>>, LinksA, DistancesA, HEADER)
TextBadLinks == Report(GeneralA, <<ALL, <<"x">>, Num(2), Num(3)>>, DistancesA, HEADER)

Texts ==
    {TextA, TextA2, TextB, TextShort, TextEmpty, TextFewGeneral, TextFewLinks,
     TextFewDistances, TextManyGeneral, TextManyLinks, TextManyDistances,
     TextBadGeneral, TextBadLinks}

FileSeqwish == <<"a", ".">> \o SEQWISH_OG
FileSmooth == <<"b", ".">> \o SMOOTH
FileConsensus == <<"c", ".">> \o CONSENSUS_AT \o <<"1", ".", "t", "s", "v">>
FileSmoothSeqwish == <<"d", ".">> \o SMOOTH \o <<".">> \o SEQWISH_OG
FileConsensusSmooth == <<"e", ".">> \o CONSENSUS_AT \o <<"1", ".">> \o SMOOTH
FileTwoConsensus == <<"f", ".">> \o CONSENSUS_AT \o <<"2", ".", "x">> \o CONSENSUS_AT \o <<"1">>
FileRandom == <<"r", "a", "n", "d", "o", "m", "_", "n", "a", "m", "e">>

FileNames ==
    <<FileSeqwish, FileSmooth, FileConsensus, FileSmoothSeqwish, FileConsensusSmooth,
      FileTwoConsensus, FileRandom>>

\* Every text under one file name, and some under a second one
TextRecords ==
    {[fn |-> FileSeqwish, f |-> t] : t \in Texts}
        \cup {[fn |-> FileSmooth, f |-> t] : t \in {TextA, TextB, TextShort, TextManyLinks}}

\* Every file name, each with a report of its own numbers
NameRecords ==
    {[fn |-> FileNames[k],
      f |-> Report(<<Num(k), Num(10 + k), Num(20 + k), Num(30 + k)>>,
                   <<ALL, Num(40 + k), Num(50 + k), Num(1)>>,
                   <<ALL, Num(60 + k), Num(70 + k), Num(1), Num(2), Num(3), Num(4)>>,
                   HEADER)] : k \in 1..Len(FileNames)}

MaxFiles == 2
MaxNames == 4

SeqsUpTo(S, n) == UNION {[1..k -> S] : k \in 0..n}

\* The sequences without repetition
DistinctSeqsUpTo(S, n) ==
    {s \in SeqsUpTo(S, n) : \A i, j \in 1..Len(s) : i < j => s[i] # s[j]}

\* find_log_files yields up to MaxFiles files of any content, where a file
\* name may come twice (the same name in two directories), or up to MaxNames
\* files of different names
LogFiles == SeqsUpTo(TextRecords, MaxFiles) \cup DistinctSeqsUpTo(NameRecords, MaxNames)

(***************************************************************************)
(* MultiqcModule.__init__ as a state machine                               *)
(***************************************************************************)
VARIABLES
    log_files,        \* what find_log_files yielded
    pc,               \* the position in __init__
    idx,              \* the position of the loop of lines 38-40 (1-based)
    odgi_stats_map,   \* self.odgi_stats_map
    sorted_filenames, \* the iteration order of plot_odgi_metrics (line 116)
    host_calls,       \* the calls made to the framework, the logger and sys
    exc               \* the exception that ended __init__, or "none"

vars == <<log_files, pc, idx, odgi_stats_map, sorted_filenames, host_calls, exc>>

Call(name, arg) == [call |-> name, arg |-> arg]

Init ==
    /\ log_files \in LogFiles
    /\ pc = "find_log_files"
    /\ idx = 1
    /\ odgi_stats_map = <<>>
    /\ sorted_filenames = <<>>
    /\ host_calls = <<>>
    /\ exc = "none"

\* lines 31-35.  Whether "not log_files" holds of an empty result depends on
\* what find_log_files returns: an empty list is falsy and UserWarning is
\* raised, an empty generator is not and the loop of line 38 runs no iteration.
FindLogFiles ==
    /\ pc = "find_log_files"
    /\ \/ /\ log_files = <<>>
          /\ pc' = "raised"
          /\ exc' = "UserWarning"
          /\ UNCHANGED host_calls
       \/ /\ pc' = IF log_files = <<>> THEN "write_data_file" ELSE "parse_odgi_stats_report"
          /\ host_calls' = Append(host_calls, Call("log.info", Len(odgi_stats_map)))
          /\ UNCHANGED exc
    /\ UNCHANGED <<log_files, idx, odgi_stats_map, sorted_filenames>>

\* line 39 creating the entry of the file before its lines are read: a failed
\* extraction leaves an empty entry
ParseOdgiStatsReportEntryFirst ==
    /\ pc = "parse_odgi_stats_report"
    /\ LET r == parse_odgi_stats_report(odgi_stats_map, log_files[idx])
       IN  IF r.ok
           THEN /\ odgi_stats_map' = r.val
                /\ pc' = "add_data_source"
                /\ UNCHANGED exc
           ELSE /\ pc' = "raised"
                /\ exc' = r.exc
                /\ odgi_stats_map' = DictUpdate(odgi_stats_map, log_files[idx].fn, <<>>)
    /\ UNCHANGED <<log_files, idx, sorted_filenames, host_calls>>

\* line 39 inside a try/except that skips a report it cannot read
ParseOdgiStatsReportSkipsFailures ==
    /\ pc = "parse_odgi_stats_report"
    /\ LET r == parse_odgi_stats_report(odgi_stats_map, log_files[idx])
       IN  odgi_stats_map' = IF r.ok THEN r.val ELSE odgi_stats_map
    /\ pc' = "add_data_source"
    /\ UNCHANGED <<log_files, idx, sorted_filenames, host_calls, exc>>

\* line 39
ParseOdgiStatsReport ==
    /\ pc = "parse_odgi_stats_report"
    /\ LET r == parse_odgi_stats_report(odgi_stats_map, log_files[idx])
       IN  IF r.ok
           THEN /\ odgi_stats_map' = r.val
                /\ pc' = "add_data_source"
                /\ UNCHANGED exc
           ELSE /\ pc' = "raised"
                /\ exc' = r.exc
                /\ UNCHANGED odgi_stats_map
    /\ UNCHANGED <<log_files, idx, sorted_filenames, host_calls>>

\* line 40 with the loop ending one record early
AddDataSourceLeavesEarly ==
    /\ pc = "add_data_source"
    /\ host_calls' = Append(host_calls, Call("add_data_source", idx))
    /\ idx' = idx + 1
    /\ pc' = IF idx + 1 < Len(log_files) THEN "parse_odgi_stats_report" ELSE "write_data_file"
    /\ UNCHANGED <<log_files, odgi_stats_map, sorted_filenames, exc>>

\* line 40, and the step of the loop
AddDataSource ==
    /\ pc = "add_data_source"
    /\ host_calls' = Append(host_calls, Call("add_data_source", idx))
    /\ idx' = idx + 1
    /\ pc' = IF idx < Len(log_files) THEN "parse_odgi_stats_report" ELSE "write_data_file"
    /\ UNCHANGED <<log_files, odgi_stats_map, sorted_filenames, exc>>

\* line 43
WriteDataFile ==
    /\ pc = "write_data_file"
    /\ host_calls' = Append(host_calls, Call("write_data_file", odgi_stats_map))
    /\ pc' = "plot_general_odgi_stats"
    /\ UNCHANGED <<log_files, idx, odgi_stats_map, sorted_filenames, exc>>

\* lines 46 and 74-104
PlotGeneralOdgiStats ==
    /\ pc = "plot_general_odgi_stats"
    /\ LET r == plot_general_odgi_stats(odgi_stats_map)
       IN  IF r.ok
           THEN /\ host_calls' =
                       Append(host_calls,
                              Call("general_stats_addcols", <<r.val, GENERAL_HEADERS>>))
                /\ pc' = "plot_odgi_metrics"
                /\ UNCHANGED exc
           ELSE /\ host_calls' = host_calls \o r.calls
                /\ pc' = "exited"
                /\ exc' = r.exc
    /\ UNCHANGED <<log_files, idx, odgi_stats_map, sorted_filenames>>

\* lines 49 and 106-144
PlotOdgiMetrics ==
    /\ pc = "plot_odgi_metrics"
    /\ sorted_filenames' = SortedFilenames(odgi_stats_map)
    /\ LET r == plot_odgi_metrics(odgi_stats_map)
       IN  IF r.ok
           THEN /\ host_calls' = Append(host_calls, Call("add_section", r.val))
                /\ pc' = "done"
                /\ UNCHANGED exc
           ELSE IF r.exc = "SystemExit"
           THEN /\ host_calls' = host_calls \o r.calls
                /\ pc' = "exited"
                /\ exc' = r.exc
           ELSE /\ pc' = "raised"
                /\ exc' = r.exc
                /\ UNCHANGED host_calls
    /\ UNCHANGED <<log_files, idx, odgi_stats_map>>

Next ==
    \/ FindLogFiles
    \/ ParseOdgiStatsReport
    \/ AddDataSource
    \/ WriteDataFile
    \/ PlotGeneralOdgiStats
    \/ PlotOdgiMetrics

Spec == Init /\ [][Next]_vars

(***************************************************************************)
(* Vocabulary of the properties                                            *)
(***************************************************************************)
\* The tab-separated tokens of the line of 0-based index i
Tokens(rec, i) == Split(SplitLines(rec.f)[i + 1], TAB)

\* What the properties say of a record, computed once for each record:
\*   eight:   the text has 8 lines or more
\*   exact:   the lines 1, 4 and 7 have exactly 4, 4 and 7 fields
\*   fewer:   one of the lines 1, 4 and 7 has fewer than 4, 4 and 7 fields
\*   numeric: the first four fields of line 1 are numbers
\*   report:  the entry the record is to leave in the store, tokens by position
Facts ==
    [rec \in TextRecords \cup NameRecords |->
        LET eight == Len(SplitLines(rec.f)) >= 8
            g == Tokens(rec, 1)
            m == Tokens(rec, 4)
            s == Tokens(rec, 7)
            fewer == eight /\ (Len(g) < 4 \/ Len(m) < 4 \/ Len(s) < 7)
            numeric == eight /\ \A k \in 1..4 : k <= Len(g) => Float(g[k]).ok
        IN  [eight |-> eight,
             exact |-> eight /\ Len(g) = 4 /\ Len(m) = 4 /\ Len(s) = 7,
             fewer |-> fewer,
             numeric |-> numeric,
             report |->
                IF eight /\ ~fewer /\ numeric
                THEN (SectionKey("General stats", rec.fn) :>
                        [Length |-> Float(g[1]).val, Nodes |-> Float(g[2]).val,
                         Edges |-> Float(g[3]).val, Paths |-> Float(g[4]).val])
                     @@ (SectionKey("Mean_links_length", rec.fn) :>
                        [Path |-> m[1], In_node_space |-> m[2],
                         In_nucleotide_space |-> m[3], Num_links_considered |-> m[4]])
                     @@ (SectionKey("Sum_of_path_nodes_distances", rec.fn) :>
                        [Path |-> s[1], In_node_space |-> s[2],
                         In_nucleotide_space |-> s[3], Nodes |-> s[4],
                         Nucleotides |-> s[5], Num_penalties |-> s[6],
                         Num_penalties_different_orientation |-> s[7]])
                ELSE <<>>]]

HasEightLines(rec) == Facts[rec].eight

ExactCounts(rec) == Facts[rec].exact

FewerFields(rec) == Facts[rec].fewer

NumericGeneral(rec) == Facts[rec].numeric

WellFormed(rec) == HasEightLines(rec) /\ ExactCounts(rec) /\ NumericGeneral(rec)

ExpectedReport(rec) == Facts[rec].report

\* The store a sequence of extracted records is to leave: one entry per file
\* name, in the order of the first record of each name, holding the report of
\* the last record of that name
ExpectedStore(recs) ==
    LET firsts == {i \in 1..Len(recs) : \A j \in 1..(i - 1) : recs[j].fn # recs[i].fn}
        nth(k) == CHOOSE i \in firsts : Cardinality({j \in firsts : j < i}) = k - 1
        last(fn) == CHOOSE i \in 1..Len(recs) :
                        /\ recs[i].fn = fn
                        /\ \A j \in (i + 1)..Len(recs) : recs[j].fn # fn
    IN  [k \in 1..Cardinality(firsts) |->
            <<recs[nth(k)].fn, ExpectedReport(recs[last(recs[nth(k)].fn)])>>]

\* The number of records whose extraction has succeeded
Extracted == IF pc = "add_data_source" THEN idx ELSE idx - 1

\* The extraction of record i has been attempted
Attempted(i) == idx > i \/ (idx = i /\ pc \notin {"find_log_files", "parse_odgi_stats_report"})

\* The extraction of record i has failed and ended the run
FailedAt(i) == idx = i /\ pc = "raised" /\ exc \in {"IndexError", "ValueError"}

CallNames == [i \in 1..Len(host_calls) |-> host_calls[i].call]

Called(name) == \E i \in 1..Len(host_calls) : host_calls[i].call = name

\* The argument of the only call of that name
ArgOf(name) == host_calls[CHOOSE i \in 1..Len(host_calls) : host_calls[i].call = name].arg

Outputs == SelectSeq(CallNames, LAMBDA c : c \in {"write_data_file", "general_stats_addcols", "add_section"})

StoreFiles == DictKeySet(odgi_stats_map)

\* The file of the store that comes last in the order o among those deriving id
LastDeriving(o, id) ==
    o[CHOOSE i \in 1..Len(o) :
        /\ strip_file_name(o[i]).val = id
        /\ \A j \in (i + 1)..Len(o) : strip_file_name(o[j]).val # id]

Identifiers == {strip_file_name(fn).val : fn \in StoreFiles}

MatchesNoConvention(fn) ==
    /\ ~Contains(fn, SEQWISH_OG)
    /\ ~Contains(fn, SMOOTH)
    /\ \A k \in 1..Len(Split(fn, DOT)) : ~Contains(Split(fn, DOT)[k], CONSENSUS_AT)

InputFileNames == {log_files[i].fn : i \in 1..Len(log_files)}

(***************************************************************************)
(* Properties                                                              *)
(***************************************************************************)
\* C1: for every discovered file name, strip_file_name returns "seqwish" when
\* the name contains "seqwish.og"; otherwise "smooth" when it contains
\* "smooth"; otherwise the leftmost '.'-separated segment that contains
\* "consensus@".  A name with "smooth" and a "consensus@" segment yields
\* "smooth", a name with several "consensus@" segments yields the leftmost;
\* and the keys of the summary table are these identifiers.
C1_StripFileNamePriority ==
    /\ \A fn \in InputFileNames :
        LET r == strip_file_name(fn)
            segs == Split(fn, DOT)
            hits == {k \in 1..Len(segs) : Contains(segs[k], CONSENSUS_AT)}
        IN  /\ Contains(fn, SEQWISH_OG) => r.ok /\ r.val = SEQWISH
            /\ ~Contains(fn, SEQWISH_OG) /\ Contains(fn, SMOOTH) => r.ok /\ r.val = SMOOTH
            /\ ~Contains(fn, SEQWISH_OG) /\ ~Contains(fn, SMOOTH) /\ hits # {} =>
                    /\ r.ok
                    /\ \E k \in hits : r.val = segs[k] /\ \A j \in hits : k <= j
    /\ FileConsensusSmooth \in InputFileNames =>
            strip_file_name(FileConsensusSmooth).val = SMOOTH
    /\ FileSmoothSeqwish \in InputFileNames =>
            strip_file_name(FileSmoothSeqwish).val = SEQWISH
    /\ FileTwoConsensus \in InputFileNames =>
            strip_file_name(FileTwoConsensus).val = CONSENSUS_AT \o <<"2">>
    /\ Called("general_stats_addcols") =>
            \A fn \in StoreFiles :
                /\ Contains(fn, SEQWISH_OG) => SEQWISH \in DictKeySet(ArgOf("general_stats_addcols")[1])
                /\ fn = FileConsensusSmooth => SMOOTH \in DictKeySet(ArgOf("general_stats_addcols")[1])
                /\ fn = FileTwoConsensus =>
                        /\ CONSENSUS_AT \o <<"2">> \in DictKeySet(ArgOf("general_stats_addcols")[1])
                        /\ <<"x">> \o CONSENSUS_AT \o <<"1">> \notin DictKeySet(ArgOf("general_stats_addcols")[1])

\* A summary table was handed over for a store holding a name with "smooth"
\* and a "consensus@" segment and a name with two "consensus@" segments
C1_Witness ==
    /\ Called("general_stats_addcols")
    /\ {FileConsensusSmooth, FileTwoConsensus, FileSmoothSeqwish} \subseteq StoreFiles

\* C3: the mapping handed to general_stats_addcols has as keys exactly the
\* identifiers derived from the file names of the store, and under each
\* identifier the general stats of the file that comes last in the store's
\* iteration order among those deriving it; a collision raises no error: the
\* table is handed over whenever every name of the store derives an identifier.
C3_SummaryTableLastWriteWins ==
    /\ Called("general_stats_addcols") =>
        LET data == ArgOf("general_stats_addcols")[1]
        IN  /\ DictKeySet(data) = Identifiers
            /\ Len(data) = Cardinality(Identifiers)
            /\ \A id \in Identifiers :
                LET fn == LastDeriving(DictKeys(odgi_stats_map), id)
                IN  DictGet(data, id) = DictGet(odgi_stats_map, fn)[SectionKey("General stats", fn)]
    /\ (pc \in {"plot_odgi_metrics", "done"}
            \/ (pc = "raised" /\ idx > Len(log_files) /\ exc # "UserWarning")) =>
            Called("general_stats_addcols")
    /\ (pc = "plot_general_odgi_stats" /\ \A fn \in StoreFiles : ~MatchesNoConvention(fn)) =>
            plot_general_odgi_stats(odgi_stats_map).ok

\* The table was handed over for a store where two files with different
\* general stats derive the same identifier
C3_Witness ==
    /\ Called("general_stats_addcols")
    /\ \E a, b \in StoreFiles :
        /\ a # b
        /\ strip_file_name(a).val = strip_file_name(b).val
        /\ DictGet(odgi_stats_map, a)[SectionKey("General stats", a)]
                # DictGet(odgi_stats_map, b)[SectionKey("General stats", b)]

\* The order o lists the names of S once each: the second largest, then the
\* largest, then the others in ascending order
MovedToFront(S, o) ==
    /\ Len(o) = Cardinality(S)
    /\ {o[i] : i \in 1..Len(o)} = S
    /\ Len(o) >= 2 => StrLess(o[1], o[2])
    /\ \A k \in 3..Len(o) : StrLess(o[k], o[1])
    /\ \A i, j \in 3..Len(o) : i < j => StrLess(o[i], o[j])

\* C4: whatever the store holds (no, one, two or more files), the order in
\* which plot_odgi_metrics visits its file names is the two largest names
\* (second largest first), then the others in ascending order: a permutation
\* of the store's file names; and it is the order the chart was built in.
C4_SeriesOrderIsPermutation ==
    /\ MovedToFront(StoreFiles, SortedFilenames(odgi_stats_map))
    /\ Called("add_section") => MovedToFront(StoreFiles, sorted_filenames)

\* The chart was built from a store of four files
C4_Witness == Called("add_section") /\ Len(sorted_filenames) = 4 /\ Cardinality(StoreFiles) = 4

\* C5: a file name matching none of the three conventions gets no identifier:
\* strip_file_name logs an error and then exits with a non-zero status.  In a
\* run, sys.exit is the last call, right after log.error, and no summary
\* table or chart was handed over.
C5_UnknownNameLogsThenExits ==
    /\ \A fn \in InputFileNames : MatchesNoConvention(fn) =>
        LET r == strip_file_name(fn)
        IN  /\ ~r.ok
            /\ "val" \notin DOMAIN r
            /\ Len(r.calls) = 2
            /\ r.calls[1].call = "log.error"
            /\ r.calls[2].call = "sys.exit" /\ r.calls[2].arg # 0
    /\ ((\E fn \in StoreFiles : MatchesNoConvention(fn))
            /\ pc \notin {"find_log_files", "parse_odgi_stats_report", "add_data_source",
                          "write_data_file", "plot_general_odgi_stats"}
            /\ ~(pc = "raised" /\ idx <= Len(log_files))) =>
        /\ pc = "exited"
        /\ exc = "SystemExit"
        /\ Len(host_calls) >= 2
        /\ host_calls[Len(host_calls)].call = "sys.exit"
        /\ host_calls[Len(host_calls)].arg # 0
        /\ host_calls[Len(host_calls) - 1].call = "log.error"
        /\ ~Called("general_stats_addcols")
        /\ ~Called("add_section")
    /\ \A i \in 1..Len(host_calls) : host_calls[i].call = "sys.exit" =>
            i = Len(host_calls) /\ i > 1 /\ host_calls[i - 1].call = "log.error"
    /\ \A i \in 1..Len(host_calls) : host_calls[i].call = "log.error" =>
            i < Len(host_calls) /\ host_calls[i + 1].call = "sys.exit"

\* The run has exited on a file name matching none of the conventions
C5_Witness ==
    /\ pc = "exited"
    /\ \E fn \in StoreFiles : MatchesNoConvention(fn)
    /\ host_calls[Len(host_calls)].call = "sys.exit"

Ended == pc \in {"done", "raised", "exited"}

\* Every discovered record has been extracted into the store
StoreComplete ==
    /\ idx = Len(log_files) + 1
    /\ odgi_stats_map = ExpectedStore(log_files)

\* C2 as stated: a run that has ended has either handed over all three
\* outputs from the complete store, or has ended in an error without having
\* handed over any of them.
C2_AllOutputsOrNone ==
    Ended =>
        \/ /\ StoreComplete
           /\ Outputs = <<"write_data_file", "general_stats_addcols", "add_section">>
        \/ exc # "none" /\ Outputs = <<>>

\* C2 as amended: an output is handed over only once the store is complete,
\* and the outputs come in the order write_data_file, general_stats_addcols,
\* add_section; a run that fails during extraction, or raises UserWarning for
\* want of records, hands over none; a run that exits on an unknown file name
\* has handed over write_data_file alone; a run that fails on a non-numeric
\* chart value has handed over write_data_file and the summary table; a run
\* that ends without error has handed over all three.
C2_NoOutputFromPartialStore ==
    /\ Outputs # <<>> => StoreComplete /\ ArgOf("write_data_file") = odgi_stats_map
    /\ \E n \in 0..3 :
            Outputs = SubSeq(<<"write_data_file", "general_stats_addcols", "add_section">>, 1, n)
    /\ (pc = "raised" /\ exc = "UserWarning") => Outputs = <<>> /\ log_files = <<>>
    /\ (pc = "raised" /\ idx <= Len(log_files)) =>
            Outputs = <<>> /\ exc \in {"IndexError", "ValueError"}
    /\ pc = "exited" => Outputs = <<"write_data_file">> /\ exc = "SystemExit"
    /\ (pc = "raised" /\ idx > Len(log_files) /\ exc # "UserWarning") =>
            Outputs = <<"write_data_file", "general_stats_addcols">> /\ exc = "ValueError"
    /\ pc = "done" =>
            Outputs = <<"write_data_file", "general_stats_addcols", "add_section">>
                /\ exc = "none"

\* A run of two records has exited on an unknown file name after
\* write_data_file was handed the store
C2_Witness ==
    /\ pc = "exited"
    /\ Len(log_files) = 2
    /\ Outputs = <<"write_data_file">>

\* C6 as stated: when the extraction of a record of fewer than 8 lines has
\* failed, the store has no entry for that record's file name, and it holds
\* what the earlier records left.
C6_ShortRecordLeavesNoEntryForItsName ==
    \A i \in 1..Len(log_files) :
        (~HasEightLines(log_files[i]) /\ Attempted(i)) =>
            /\ FailedAt(i)
            /\ log_files[i].fn \notin StoreFiles
            /\ odgi_stats_map = ExpectedStore(SubSeq(log_files, 1, i - 1))

\* C6 as amended: the extraction of a record of fewer than 8 lines fails with
\* an error and leaves the store exactly as the earlier records left it: no
\* entry is added or changed; the store has an entry for the record's file
\* name only when an earlier record of that name was extracted.
C6_ShortRecordLeavesStoreUnchanged ==
    \A i \in 1..Len(log_files) :
        (~HasEightLines(log_files[i]) /\ Attempted(i)) =>
            /\ FailedAt(i)
            /\ exc = "IndexError"
            /\ odgi_stats_map = ExpectedStore(SubSeq(log_files, 1, i - 1))
            /\ log_files[i].fn \in StoreFiles <=>
                    \E j \in 1..(i - 1) : log_files[j].fn = log_files[i].fn

\* The extraction of a second record, of fewer than 8 lines, has failed after
\* a first record was extracted
C6_Witness ==
    /\ Len(log_files) = 2
    /\ ~HasEightLines(log_files[2])
    /\ FailedAt(2)
    /\ Len(odgi_stats_map) = 1

\* C7 as stated: the extraction of a record fails, adding no entry, whenever
\* one of the three designated lines does not have exactly 4, 4 and 7 fields.
C7_WrongFieldCountFails ==
    \A i \in 1..Len(log_files) :
        (HasEightLines(log_files[i]) /\ ~ExactCounts(log_files[i]) /\ Attempted(i)) =>
            /\ FailedAt(i)
            /\ odgi_stats_map = ExpectedStore(SubSeq(log_files, 1, i - 1))

\* C7 as amended: the extraction of a record fails, adding no entry, whenever
\* one of the three designated lines has fewer than 4, 4 and 7 fields; a
\* record whose designated lines have these fields or more, the first four of
\* line 1 numeric, is extracted: the fields beyond are ignored.
C7_TooFewFieldsFails ==
    \A i \in 1..Len(log_files) :
        (HasEightLines(log_files[i]) /\ Attempted(i)) =>
            /\ FewerFields(log_files[i]) =>
                    /\ FailedAt(i)
                    /\ odgi_stats_map = ExpectedStore(SubSeq(log_files, 1, i - 1))
            /\ (~FewerFields(log_files[i]) /\ NumericGeneral(log_files[i])) =>
                    /\ ~FailedAt(i)
                    /\ i <= Extracted
                    /\ log_files[i].fn \in StoreFiles

\* The extraction of a record with too few fields has failed after a record
\* with too many fields on line 1 was extracted
C7_Witness ==
    /\ Len(log_files) = 2
    /\ log_files[1].f = TextManyGeneral
    /\ HasEightLines(log_files[2]) /\ FewerFields(log_files[2])
    /\ FailedAt(2)

\* C8: the extraction of a well-formed record succeeds, and the store holds
\* after it one entry under the record's file name, built from the tokens of
\* the lines 1, 4 and 7 by position (those of line 1 as numbers), the entries
\* of the other file names being as before; records that differ only in their
\* other lines leave the same entry.
C8_ExtractionByPosition ==
    /\ odgi_stats_map = ExpectedStore(SubSeq(log_files, 1, Extracted))
    /\ \A i \in 1..Len(log_files) :
        (WellFormed(log_files[i]) /\ Attempted(i)) =>
            /\ i <= Extracted
            /\ idx = i =>
                /\ DictGet(odgi_stats_map, log_files[i].fn) = ExpectedReport(log_files[i])
                /\ DOMAIN DictGet(odgi_stats_map, log_files[i].fn) = SectionKeys(log_files[i].fn)
                /\ Cardinality({k \in 1..Len(odgi_stats_map) :
                                    odgi_stats_map[k][1] = log_files[i].fn}) = 1
                /\ log_files[i].f \in {TextA, TextA2} =>
                        DictGet(odgi_stats_map, log_files[i].fn)
                            = ExpectedReport([fn |-> log_files[i].fn, f |-> TextA])

\* A record with a ninth line and numbers spelled "1.50", "007", ".5", "3."
\* was extracted after another record
C8_Witness ==
    /\ pc = "add_data_source"
    /\ idx = 2
    /\ log_files[2].f = TextB
    /\ log_files[1].f = TextA2
    /\ log_files[1].fn # log_files[2].fn
    /\ DictGet(odgi_stats_map, log_files[2].fn)[SectionKey("General stats", log_files[2].fn)].Length
            = [m |-> 15, e |-> 1]

Registrations == SelectSeq(host_calls, LAMBDA c : c.call = "add_data_source")

\* C9: the records registered with add_data_source are, in order, the records
\* 1..idx-1: each is registered once, after its own extraction has succeeded
\* and before the extraction of the next begins; a run where every extraction
\* succeeds registers every record; write_data_file comes after all
\* registrations.
C9_RegisteredOncePerExtractedRecord ==
    /\ Registrations = [i \in 1..(idx - 1) |-> Call("add_data_source", i)]
    /\ idx - 1 <= Extracted /\ Extracted <= idx
    /\ \A i \in 1..(idx - 1) :
            /\ log_files[i].fn \in StoreFiles
            /\ HasEightLines(log_files[i])
            /\ ~FewerFields(log_files[i])
            /\ NumericGeneral(log_files[i])
    /\ pc = "add_data_source" => log_files[idx].fn \in StoreFiles
    /\ (pc \in {"write_data_file", "plot_general_odgi_stats", "plot_odgi_metrics", "done",
                "exited"}) => Len(Registrations) = Len(log_files)
    /\ \A i, j \in 1..Len(host_calls) :
            (host_calls[i].call = "write_data_file" /\ host_calls[j].call = "add_data_source")
                => j < i

\* Three records were registered, and write_data_file called
C9_Witness ==
    /\ Called("write_data_file")
    /\ Len(Registrations) = 3

ChartSeries == {"in_node_space_mean", "in_nucleotide_space_mean", "in_node_space_sum",
                "in_nucleotide_space_sum"}

\* The value a file contributes to a series of the chart
ChartValue(series, fn) ==
    LET report == DictGet(odgi_stats_map, fn)
        links == report[SectionKey("Mean_links_length", fn)]
        distances == report[SectionKey("Sum_of_path_nodes_distances", fn)]
    IN  CASE series = "in_node_space_mean" -> Float(links.In_node_space).val
          [] series = "in_nucleotide_space_mean" -> Float(links.In_nucleotide_space).val
          [] series = "in_node_space_sum" -> Float(distances.In_node_space).val
          [] series = "in_nucleotide_space_sum" -> Float(distances.In_nucleotide_space).val

\* C10 as stated: each series of the chart holds, under each identifier, the
\* value of the file whose general stats the summary table holds under that
\* identifier (the last in the store's order), and has the key set of the table.
C10_ChartHoldsTheFileOfTheTable ==
    Called("add_section") =>
        \A series \in ChartSeries :
            /\ DictKeySet(ArgOf("add_section")[series])
                    = DictKeySet(ArgOf("general_stats_addcols")[1])
            /\ \A id \in Identifiers :
                    DictGet(ArgOf("add_section")[series], id)
                        = ChartValue(series, LastDeriving(DictKeys(odgi_stats_map), id))

\* C10 as amended: each series of the chart holds, under each identifier, the
\* value of the file that comes last in the chart's own order (the two largest
\* names, then the others ascending) among those deriving it, the same file
\* for the four series, and has the key set of the table; the file need not
\* be the one whose general stats the table holds.
C10_ChartLastWriteWinsInChartOrder ==
    Called("add_section") =>
        \A series \in ChartSeries :
            /\ DictKeySet(ArgOf("add_section")[series])
                    = DictKeySet(ArgOf("general_stats_addcols")[1])
            /\ Len(ArgOf("add_section")[series]) = Cardinality(Identifiers)
            /\ MovedToFront(StoreFiles, sorted_filenames)
            /\ \A id \in Identifiers :
                    DictGet(ArgOf("add_section")[series], id)
                        = ChartValue(series, LastDeriving(sorted_filenames, id))

\* The chart was handed over for a store where the last file deriving an
\* identifier in the chart's order is not the last in the store's order
C10_Witness ==
    /\ Called("add_section")
    /\ \E id \in Identifiers :
            LastDeriving(sorted_filenames, id) # LastDeriving(DictKeys(odgi_stats_map), id)

====
